---- MODULE Spec2Model ----
(***************************************************************************)
(* Model of s2e_env/execution_trace/modules.py: SectionDescriptor, Module, *)
(* _index and ModuleMap.                                                   *)
(*                                                                         *)
(* Python objects are modelled with the identity the code relies on:       *)
(*   - a SectionDescriptor is a record that carries, besides its           *)
(*     attributes, the module and position it was created for (mod, k);    *)
(*     the sentinel built by ModuleMap.get has mod = 0;                    *)
(*   - the per-pid section lists are mutable Python lists, so they live    *)
(*     in a heap and ModuleMap._pid_to_sections holds references to them;  *)
(*   - immutables.Map is a value: set and delete return a new map, and     *)
(*     delete and [] raise KeyError on a missing key.  The hash of a key   *)
(*     (pid, section) is taken to be injective on                          *)
(*     (pid, runtime_load_base, size), as SectionDescriptor.__hash__       *)
(*     hashes exactly that pair.                                           *)
(***************************************************************************)
EXTENDS Integers, Sequences, FiniteSets, TLC

\* ------------------------------------------------------------------ bounds

\* Largest address of the modelled address space (plays 0xffffffffffffffff).
MaxAddr == 3

\* Number of ModuleMap instances (the first one plus its clones).
MaxMaps == 3

\* Number of calls made in one run when the maps are cloned (Spec); a run on
\* a single map (SpecSingle) is not bounded.
MaxOps == 4

Addrs == 0..MaxAddr

\* Process ids handed to get and remove_pid; pid 0 is the kernel's.
Pids == {0, 1, 2}

\* ------------------------------------------------------- SectionDescriptor

SectionDescriptor(m, k, rb, nb, sz) ==
    [mod |-> m, k |-> k, runtime_load_base |-> rb, native_load_base |-> nb, size |-> sz]

contains(s, pc) ==
    s.runtime_load_base <= pc /\ pc < s.runtime_load_base + s.size

SectionHash(s) == <<s.runtime_load_base, s.size>>

\* Mutant: a section that ends where the other begins is not less than it.
SectionLt_strict(a, b) == a.runtime_load_base + a.size < b.runtime_load_base

SectionLt(a, b) == a.runtime_load_base + a.size <= b.runtime_load_base

\* Mutant: equality of the hashed attributes instead of "neither is less".
SectionEq_exact(a, b) ==
    a.runtime_load_base = b.runtime_load_base /\ a.size = b.size

SectionEq(a, b) == ~SectionLt(a, b) /\ ~SectionLt(b, a)

\* ------------------------------------------------------------------ Module

\* The modules the driver feeds to the map.  Each is built once, so its
\* SectionDescriptor objects are the same objects in every call.
Mods ==
    << [pid |-> 1, sections |-> << SectionDescriptor(1, 1, 0, 10, 1) >>],
       [pid |-> 1, sections |-> << SectionDescriptor(2, 1, 0, 20, 2),
                                   SectionDescriptor(2, 2, 1, 30, 2) >>],
       [pid |-> 1, sections |-> << SectionDescriptor(3, 1, 2, 40, 1),
                                   SectionDescriptor(3, 2, 1, 50, 0),
                                   SectionDescriptor(3, 3, 3, 55, 1) >>],
       [pid |-> 1, sections |-> << SectionDescriptor(4, 1, 2, 60, 1) >>],
       [pid |-> 0, sections |-> << SectionDescriptor(5, 1, 2, 70, 1),
                                   SectionDescriptor(5, 2, 3, 80, 1) >> ] >>

ModIds == 1..Len(Mods)

\* Pids that own a module, hence pids that can own a section list.
ModPids == {Mods[m].pid : m \in ModIds}

RECURSIVE get_section_from(_, _, _)
get_section_from(secs, pc, k) ==
    IF k > Len(secs) THEN 0
    ELSE IF contains(secs[k], pc) THEN k
    ELSE get_section_from(secs, pc, k + 1)

\* Position of the first section containing pc, 0 for None.
get_section(secs, pc) == get_section_from(secs, pc, 1)

\* Python's None where an address is expected.
None == -1

\* Mutant: the two bases swapped.
to_native_swapped(secs, pc) ==
    LET k == get_section(secs, pc) IN
    IF k = 0 THEN None
    ELSE pc - secs[k].native_load_base + secs[k].runtime_load_base

to_native(secs, pc) ==
    LET k == get_section(secs, pc) IN
    IF k = 0 THEN None
    ELSE pc - secs[k].runtime_load_base + secs[k].native_load_base

\* ------------------------------------------------------------------ _index

RECURSIVE bisect_left_loop(_, _, _, _)
bisect_left_loop(a, x, lo, hi) ==
    IF lo < hi
    THEN LET mid == (lo + hi) \div 2 IN
         IF SectionLt(a[mid + 1], x)
         THEN bisect_left_loop(a, x, mid + 1, hi)
         ELSE bisect_left_loop(a, x, lo, mid)
    ELSE lo

\* 0-based insertion point, as bisect.bisect_left
bisect_left(a, x) == bisect_left_loop(a, x, 0, Len(a))

RECURSIVE bisect_right_loop(_, _, _, _)
bisect_right_loop(a, x, lo, hi) ==
    IF lo < hi
    THEN LET mid == (lo + hi) \div 2 IN
         IF SectionLt(x, a[mid + 1])
         THEN bisect_right_loop(a, x, lo, mid)
         ELSE bisect_right_loop(a, x, mid + 1, hi)
    ELSE lo

InsertAt(a, i, x) == SubSeq(a, 1, i) \o <<x>> \o SubSeq(a, i + 1, Len(a))

\* Mutant: deletes the element after position i.
DeleteAt_next(a, i) == SubSeq(a, 1, i + 1) \o SubSeq(a, i + 3, Len(a))

\* del a[i], i 0-based
DeleteAt(a, i) == SubSeq(a, 1, i) \o SubSeq(a, i + 2, Len(a))

\* bisect.insort (insort_right)
insort(a, x) == InsertAt(a, bisect_right_loop(a, x, 0, Len(a)), x)

NoIdx == -1

\* Mutant: bisect_right in place of bisect_left.
_index_bisect_right(sections, x) ==
    LET i == bisect_right_loop(sections, x, 0, Len(sections)) IN
    IF i # Len(sections) /\ SectionEq(sections[i + 1], x) THEN i ELSE NoIdx

\* 0-based position of an element that compares equal to x, NoIdx for None.
_index(sections, x) ==
    LET i == bisect_left(sections, x) IN
    IF i # Len(sections) /\ SectionEq(sections[i + 1], x) THEN i ELSE NoIdx

\* ---------------------------------------------------------- immutables.Map

\* _section_to_module is a set of entries [pid, key, val]: key is the
\* SectionDescriptor object of the key tuple (pid, section), val the module.
\* Two key tuples match when their hashes agree and they compare equal
\* (identity first, then SectionDescriptor.__eq__).
KeyMatch(e, pid, s) ==
    /\ e.pid = pid
    /\ SectionHash(e.key) = SectionHash(s)
    /\ (e.key = s \/ SectionEq(e.key, s))

MapFind(m, pid, s) == {e \in m : KeyMatch(e, pid, s)}

MapHas(m, pid, s) == MapFind(m, pid, s) # {}

MapGet(m, pid, s) == (CHOOSE e \in MapFind(m, pid, s) : TRUE).val

\* Map.set: an existing entry keeps its key object and takes the new value.
MapSet(m, pid, s, v) ==
    IF MapHas(m, pid, s)
    THEN {IF KeyMatch(e, pid, s) THEN [e EXCEPT !.val = v] ELSE e : e \in m}
    ELSE m \cup {[pid |-> pid, key |-> s, val |-> v]}

\* Map.delete of a key that is present.
MapDelete(m, pid, s) == m \ MapFind(m, pid, s)

\* ------------------------------------------------------------ list objects

NumListPids == Cardinality(ModPids)

\* One heap cell per (map, pid) slot, plus one for the list a call builds.
NumSlots == MaxMaps * NumListPids

Fresh == NumSlots + 1

Refs == 1..Fresh

\* NoRef in _pid_to_sections: the pid is not a key of the map.
NoRef == 0

\* The heap cell named after map i's list for pid (pid \in ModPids).
Slot(i, pid) == (i - 1) * NumListPids + Cardinality({q \in ModPids : q < pid}) + 1

Slots == 1..NumSlots

SlotMap == [s \in Slots |-> ((s - 1) \div NumListPids) + 1]

SlotPid == [s \in Slots |-> CHOOSE p \in ModPids : Slot(1, p) = ((s - 1) % NumListPids) + 1]

\* Mutant: no copy, the caller works on the list it was given.
ListCopy_alias(h, ref) == [heap |-> h, ref |-> ref]

\* list.copy(): a new list object, held in the cell Fresh.
ListCopy(h, ref) == [heap |-> [h EXCEPT ![Fresh] = h[ref]], ref |-> Fresh]

\* ---------------------------------------------------------------- ModuleMap

\* maps, heap: the ModuleMap objects and the section lists they refer to;
\* last: the latest call and its outcome; nops: the number of calls made;
\* m_sections, m_pc, m_native: the sections of a Module under test, the
\* address handed to its to_native and, once called, <<what it returned>>.
VARIABLES maps, heap, last, nops, m_sections, m_pc, m_native

vars == <<maps, heap, last, nops, m_sections, m_pc, m_native>>

mapvars == <<maps, heap, last, nops>>

modvars == <<m_sections, m_pc, m_native>>

MapIds == 1..MaxMaps

\* 0xffffffffffffffff, the top of the address space
KernelStartInit == MaxAddr

EmptyMap ==
    [made |-> FALSE,
     pid_to_sections |-> [p \in Pids |-> NoRef],
     section_to_module |-> {},
     kernel_start |-> KernelStartInit]

\* ModuleMap.__init__
NewModuleMap == [EmptyMap EXCEPT !.made = TRUE]

\* Names each list after the first slot that refers to it and drops the
\* lists nothing refers to, so that a state does not depend on the order in
\* which the list objects were allocated.
SlotRef(ms, s) == ms[SlotMap[s]].pid_to_sections[SlotPid[s]]

FirstSlot(ms, s) ==
    CHOOSE t \in 1..s :
        /\ SlotRef(ms, t) = SlotRef(ms, s)
        /\ \A u \in 1..(t - 1) : SlotRef(ms, u) # SlotRef(ms, s)

CanonMaps(ms) ==
    [i \in MapIds |->
        [ms[i] EXCEPT !.pid_to_sections =
            [p \in Pids |->
                IF ms[i].pid_to_sections[p] = NoRef THEN NoRef
                ELSE FirstSlot(ms, Slot(i, p))]]]

CanonHeap(ms, h) ==
    [r \in Refs |->
        IF r \in Slots /\ SlotRef(ms, r) # NoRef /\ FirstSlot(ms, r) = r
        THEN h[SlotRef(ms, r)]
        ELSE << >>]

\* Mutant: the threshold itself is not redirected.
_translate_pid_strict(self, pid, pc) == IF pc > self.kernel_start THEN 0 ELSE pid

\* Mutant: no redirection.
_translate_pid_none(self, pid, pc) == pid

\* ModuleMap._translate_pid
_translate_pid(self, pid, pc) == IF pc >= self.kernel_start THEN 0 ELSE pid

\* Outcome of a call: err is "ok" or the exception raised.
GetResult(err, m) == [err |-> err, mod |-> m]

\* ModuleMap.get; mod is the module returned (0 when an exception is raised)
get(self, h, pid0, pc) ==
    LET pid == _translate_pid(self, pid0, pc) IN
    IF self.pid_to_sections[pid] = NoRef THEN GetResult("PidNotFound", 0)
    ELSE LET sections == h[self.pid_to_sections[pid]]
             sd == SectionDescriptor(0, 0, pc, 0, 1)
             idx == _index(sections, sd) IN
         IF idx = NoIdx THEN GetResult("AddressNotMapped", 0)
         ELSE LET section == sections[idx + 1] IN
              IF MapHas(self.section_to_module, pid, section)
              THEN GetResult("ok", MapGet(self.section_to_module, pid, section))
              ELSE GetResult("KeyError", 0)

\* The loop of ModuleMap.add from section k on; r is the list pid_sections.
RECURSIVE add_loop(_, _, _, _, _)
\* Mutant: a conflicting section takes over the entry of the listed one.
add_loop_last_wins(m, k, h, r, s2m) ==
    IF k > Len(Mods[m].sections) THEN [err |-> "ok", heap |-> h, s2m |-> s2m]
    ELSE LET section == Mods[m].sections[k]
             pid == Mods[m].pid
             idx == _index(h[r], section) IN
         IF section.size = 0 THEN [err |-> "ZeroSize", heap |-> h, s2m |-> s2m]
         ELSE IF idx # NoIdx
         THEN add_loop(m, k + 1, h, r, MapSet(s2m, pid, h[r][idx + 1], m))
         ELSE add_loop(m, k + 1, [h EXCEPT ![r] = insort(h[r], section)], r,
                       MapSet(s2m, pid, section, m))

\* Mutant: the loop ends at the first conflicting section.
add_loop_stop(m, k, h, r, s2m) ==
    IF k > Len(Mods[m].sections) THEN [err |-> "ok", heap |-> h, s2m |-> s2m]
    ELSE LET section == Mods[m].sections[k]
             pid == Mods[m].pid
             idx == _index(h[r], section) IN
         IF section.size = 0 THEN [err |-> "ZeroSize", heap |-> h, s2m |-> s2m]
         ELSE IF idx # NoIdx
         THEN [err |-> "ok", heap |-> h, s2m |-> s2m]
         ELSE add_loop(m, k + 1, [h EXCEPT ![r] = insort(h[r], section)], r,
                       MapSet(s2m, pid, section, m))

add_loop(m, k, h, r, s2m) ==
    IF k > Len(Mods[m].sections) THEN [err |-> "ok", heap |-> h, s2m |-> s2m]
    ELSE LET section == Mods[m].sections[k]
             pid == Mods[m].pid
             idx == _index(h[r], section) IN
         IF section.size = 0 THEN [err |-> "ZeroSize", heap |-> h, s2m |-> s2m]
         ELSE IF idx # NoIdx
         THEN \* the warning's argument is a map lookup
              IF MapHas(s2m, pid, h[r][idx + 1])
              THEN add_loop(m, k + 1, h, r, s2m)
              ELSE [err |-> "KeyError", heap |-> h, s2m |-> s2m]
         ELSE add_loop(m, k + 1, [h EXCEPT ![r] = insort(h[r], section)], r,
                       MapSet(s2m, pid, section, m))

\* ModuleMap.add: the map and the heap after the call, and its outcome
add(self, h, m) ==
    LET pid == Mods[m].pid
        ref0 == self.pid_to_sections[pid]
        \* .get(mod.pid, []): a new empty list when the pid is no key
        h0 == IF ref0 = NoRef THEN [h EXCEPT ![Fresh] = << >>] ELSE h
        c == ListCopy(h0, IF ref0 = NoRef THEN Fresh ELSE ref0)
        out == add_loop(m, 1, c.heap, c.ref, self.section_to_module) IN
    [err |-> out.err,
     heap |-> out.heap,
     self |-> [self EXCEPT
                 !.section_to_module = out.s2m,
                 !.pid_to_sections =
                     IF out.err = "ok" THEN [@ EXCEPT ![pid] = c.ref] ELSE @]]

\* The loop of ModuleMap.remove from section k on.
RECURSIVE remove_loop(_, _, _, _, _)
remove_loop(m, k, h, r, self) ==
    IF k > Len(Mods[m].sections) THEN [err |-> "ok", heap |-> h, self |-> self]
    ELSE LET section == Mods[m].sections[k]
             pid == Mods[m].pid
             idx == _index(h[r], section) IN
         IF idx = NoIdx THEN remove_loop(m, k + 1, h, r, self)
         ELSE LET h1 == [h EXCEPT ![r] = DeleteAt(h[r], idx)] IN
              IF MapHas(self.section_to_module, pid, section)
              THEN remove_loop(m, k + 1, h1, r,
                     [self EXCEPT
                        !.section_to_module = MapDelete(@, pid, section),
                        !.pid_to_sections = [@ EXCEPT ![pid] = r]])
              ELSE [err |-> "KeyError", heap |-> h1, self |-> self]

\* ModuleMap.remove
remove(self, h, m) ==
    LET ref0 == self.pid_to_sections[Mods[m].pid] IN
    IF ref0 = NoRef THEN [err |-> "KeyError", heap |-> h, self |-> self]
    ELSE LET c == ListCopy(h, ref0) IN remove_loop(m, 1, c.heap, c.ref, self)

\* Mutant: drops the pid's entries of the module mapping, not its list.
remove_pid_entries_only(self, h, pid) ==
    IF self.pid_to_sections[pid] = NoRef
    THEN [err |-> "KeyError", heap |-> h, self |-> self]
    ELSE [err |-> "ok", heap |-> h,
          self |-> [self EXCEPT !.section_to_module = {e \in @ : e.pid # pid}]]

\* Mutant: drops the pid's list and the entries of every pid.
remove_pid_all_entries(self, h, pid) ==
    IF self.pid_to_sections[pid] = NoRef
    THEN [err |-> "KeyError", heap |-> h, self |-> self]
    ELSE [err |-> "ok", heap |-> h,
          self |-> [self EXCEPT
                      !.pid_to_sections = [@ EXCEPT ![pid] = NoRef],
                      !.section_to_module = {}]]

\* ModuleMap.remove_pid
remove_pid(self, h, pid) ==
    IF self.pid_to_sections[pid] = NoRef
    THEN [err |-> "KeyError", heap |-> h, self |-> self]
    ELSE [err |-> "ok", heap |-> h,
          self |-> [self EXCEPT
                      !.pid_to_sections = [@ EXCEPT ![pid] = NoRef],
                      !.section_to_module = {e \in @ : e.pid # pid}]]

\* Mutant: the clone keeps the kernel_start of a new ModuleMap.
clone_default_kernel(self) ==
    [NewModuleMap EXCEPT
        !.pid_to_sections = self.pid_to_sections,
        !.section_to_module = self.section_to_module]

\* ModuleMap.clone
clone(self) ==
    [NewModuleMap EXCEPT
        !.pid_to_sections = self.pid_to_sections,
        !.section_to_module = self.section_to_module,
        !.kernel_start = self.kernel_start]

\* ------------------------------------------------------------------ driver

Call(op, i, arg, pc, err, m) ==
    [op |-> op, map |-> i, arg |-> arg, pc |-> pc, err |-> err, mod |-> m]

\* The state after a call on map i left it as self with heap h.
Commit(i, self, h, call) ==
    LET ms == [maps EXCEPT ![i] = self] IN
    /\ maps' = CanonMaps(ms)
    /\ heap' = CanonHeap(ms, h)
    /\ last' = call
    /\ UNCHANGED modvars

InitMaps ==
    /\ maps = [i \in MapIds |-> IF i = 1 THEN NewModuleMap ELSE EmptyMap]
    /\ heap = [r \in Refs |-> << >>]
    /\ last = Call("init", 1, 0, 0, "ok", 0)
    /\ nops = 0

Init ==
    /\ InitMaps
    /\ m_sections = << >>
    /\ m_pc = 0
    /\ m_native = << >>

DoAdd(i, m) ==
    /\ maps[i].made
    /\ LET out == add(maps[i], heap, m) IN
       Commit(i, out.self, out.heap, Call("add", i, m, 0, out.err, 0))

DoRemove(i, m) ==
    /\ maps[i].made
    /\ LET out == remove(maps[i], heap, m) IN
       Commit(i, out.self, out.heap, Call("remove", i, m, 0, out.err, 0))

DoRemovePid(i, pid) ==
    /\ maps[i].made
    /\ LET out == remove_pid(maps[i], heap, pid) IN
       Commit(i, out.self, out.heap, Call("remove_pid", i, pid, 0, out.err, 0))

\* the kernel_start setter
DoSetKernelStart(i, pc) ==
    /\ maps[i].made
    /\ Commit(i, [maps[i] EXCEPT !.kernel_start = pc], heap,
              Call("kernel_start", i, 0, pc, "ok", 0))

\* clone() of map i; the clone becomes the first unused map j
DoClone(i, j) ==
    /\ maps[i].made
    /\ ~maps[j].made
    /\ \A l \in MapIds : l < j => maps[l].made
    /\ Commit(j, clone(maps[i]), heap, Call("clone", i, j, 0, "ok", 0))

\* One more call, while the run has calls left.
Budget == nops < MaxOps /\ nops' = nops + 1

Add(i, m) == Budget /\ DoAdd(i, m)

Remove(i, m) == Budget /\ DoRemove(i, m)

RemovePid(i, pid) == Budget /\ DoRemovePid(i, pid)

SetKernelStart(i, pc) == Budget /\ DoSetKernelStart(i, pc)

Clone(i, j) == Budget /\ DoClone(i, j)

Next ==
    \/ \E i \in MapIds, m \in ModIds : Add(i, m)
    \/ \E i \in MapIds, m \in ModIds : Remove(i, m)
    \/ \E i \in MapIds, pid \in Pids : RemovePid(i, pid)
    \/ \E i \in MapIds, pc \in Addrs : SetKernelStart(i, pc)
    \/ \E i \in MapIds, j \in MapIds : Clone(i, j)

\* Any number of calls on maps that are cloned, MaxOps calls in all.
Spec == Init /\ [][Next]_vars

\* ------------------------------------------------------------- a single map

AddSingle(m) == DoAdd(1, m) /\ UNCHANGED nops

RemoveSingle(m) == DoRemove(1, m) /\ UNCHANGED nops

RemovePidSingle(pid) == DoRemovePid(1, pid) /\ UNCHANGED nops

SetKernelStartSingle(pc) == DoSetKernelStart(1, pc) /\ UNCHANGED nops

NextSingle ==
    \/ \E m \in ModIds : AddSingle(m)
    \/ \E m \in ModIds : RemoveSingle(m)
    \/ \E pid \in Pids : RemovePidSingle(pid)
    \/ \E pc \in Addrs : SetKernelStartSingle(pc)

\* Any number of calls, in any order, on one map that is never cloned.
SpecSingle == Init /\ [][NextSingle]_vars

\* ------------------------------------------------------- Module.to_native

\* Sizes and native bases of the sections of a module under test.
MaxSize == 2

MaxSections == 2

NativeBases == {0, 5}

SectionValues ==
    {SectionDescriptor(0, 0, rb, nb, sz) : rb \in Addrs, nb \in NativeBases, sz \in 0..MaxSize}

SectionLists ==
    UNION {[1..n -> SectionValues] : n \in 0..MaxSections}

InitNative ==
    /\ InitMaps
    /\ m_sections \in SectionLists
    /\ m_pc \in Addrs
    /\ m_native = << >>

ToNative ==
    /\ m_native = << >>
    /\ m_native' = << to_native(m_sections, m_pc) >>
    /\ UNCHANGED <<mapvars, m_sections, m_pc>>

NextNative == ToNative

SpecNative == InitNative /\ [][NextNative]_vars

\* ------------------------------------------------------------------ claims

Tracked(self, pid) == self.pid_to_sections[pid] # NoRef

\* The section list of pid, empty when the pid is no key of the map.
SectionsOf(self, h, pid) ==
    IF Tracked(self, pid) THEN h[self.pid_to_sections[pid]] ELSE << >>

Elems(seq) == {seq[k] : k \in 1..Len(seq)}

\* The entries of the module mapping keyed by pid.
EntriesOf(self, pid) == {e \in self.section_to_module : e.pid = pid}

Inside(s, pc) == s.runtime_load_base <= pc /\ pc < s.runtime_load_base + s.size

RangesOverlap(a, b) ==
    /\ a.size > 0 /\ b.size > 0
    /\ a.runtime_load_base < b.runtime_load_base + b.size
    /\ b.runtime_load_base < a.runtime_load_base + a.size

\* get(pid, pc) looks pc up under pid itself.
NotRedirected(self, pid, pc) == pid = 0 \/ pc < self.kernel_start

Returned(m) == GetResult("ok", m)

Raised(err) == GetResult(err, 0)

\* C1 as stated: for every section S in the list of a pid, get(pid, pc)
\* returns the module that owns S for every pc inside S.
C1_Original ==
    \A i \in MapIds, pid \in Pids :
        \A s \in Elems(SectionsOf(maps[i], heap, pid)) :
            \A pc \in Addrs :
                Inside(s, pc) => get(maps[i], heap, pid, pc) = Returned(s.mod)

\* C1 amended: for every section S in the list of a pid, get(pid, pc) returns
\* the module that owns S for every pc inside S that is below kernel_start
\* (or when pid is 0), that is, when the lookup is not redirected to pid 0.
C1_Amended ==
    \A i \in MapIds, pid \in Pids :
        \A s \in Elems(SectionsOf(maps[i], heap, pid)) :
            \A pc \in Addrs :
                Inside(s, pc) /\ NotRedirected(maps[i], pid, pc)
                    => get(maps[i], heap, pid, pc) = Returned(s.mod)

\* C1 witness: after an add, a pid holds sections of two modules and get
\* resolves an address of each to its own module.
C1_Witness ==
    /\ last.op = "add" /\ last.err = "ok"
    /\ \E s, u \in Elems(SectionsOf(maps[1], heap, 1)) :
          /\ s.mod # u.mod
          /\ get(maps[1], heap, 1, s.runtime_load_base) = Returned(s.mod)
          /\ get(maps[1], heap, 1, u.runtime_load_base) = Returned(u.mod)

\* C2: a call on one map (add, remove, remove_pid, the kernel_start setter,
\* clone) never changes the outcome of any get(pid, pc) on another map that
\* exists, whichever of them was cloned from which and when.
C2_Isolation ==
    [][\A j \in MapIds :
          maps[j].made /\ j # last'.map
              => \A pid \in Pids, pc \in Addrs :
                    get(maps'[j], heap', pid, pc) = get(maps[j], heap, pid, pc)]_vars

\* C2 witness: three maps exist (an ancestor and two clones), the latest
\* call changed one of them, and every two of them answer some get
\* differently.
C2_Witness ==
    /\ last.op \in {"add", "remove", "remove_pid"} /\ last.err = "ok"
    /\ \A i \in 1..3 : maps[i].made
    /\ \A i, j \in 1..3 :
          i # j => \E pid \in Pids, pc \in Addrs :
                      get(maps[i], heap, pid, pc) # get(maps[j], heap, pid, pc)

\* C3: for every pid and every pc >= kernel_start, get(pid, pc) has the
\* outcome of get(0, pc).
C3_KernelRedirect ==
    \A i \in MapIds, pid \in Pids, pc \in Addrs :
        maps[i].made /\ pc >= maps[i].kernel_start
            => get(maps[i], heap, pid, pc) = get(maps[i], heap, 0, pc)

\* C3 witness: pid 1 and pid 0 both hold a section containing a pc at or
\* above kernel_start, owned by different modules, and get(1, pc) returns
\* the module of pid 0's section.
C3_Witness ==
    \E pc \in Addrs :
        /\ pc >= maps[1].kernel_start
        /\ \E s \in Elems(SectionsOf(maps[1], heap, 1)),
              u \in Elems(SectionsOf(maps[1], heap, 0)) :
              /\ Inside(s, pc) /\ Inside(u, pc) /\ s.mod # u.mod
              /\ get(maps[1], heap, 1, pc) = Returned(u.mod)

HasZeroSize(m) == \E k \in 1..Len(Mods[m].sections) : Mods[m].sections[k].size = 0

\* C4 as stated: add of a module with a zero-size section raises the
\* zero-size error and leaves the pid's section list and the pid's entries
\* of the module mapping as they were.
C4_Original ==
    [][last'.op = "add" /\ HasZeroSize(last'.arg)
          => LET i == last'.map
                 pid == Mods[last'.arg].pid IN
             /\ last'.err = "ZeroSize"
             /\ Tracked(maps'[i], pid) = Tracked(maps[i], pid)
             /\ SectionsOf(maps'[i], heap', pid) = SectionsOf(maps[i], heap, pid)
             /\ EntriesOf(maps'[i], pid) = EntriesOf(maps[i], pid)]_vars

\* C5: when add is given a section that overlaps a section already in the
\* pid's list, the call raises no lookup error, the listed section stays in
\* the list and keeps its entry of the module mapping, and the overlapping
\* section is not in the list afterwards.
C5_OverlapSkipped ==
    [][last'.op = "add"
          => LET i == last'.map
                 m == last'.arg
                 pid == Mods[m].pid
                 new == Elems(Mods[m].sections)
                 pre == Elems(SectionsOf(maps[i], heap, pid))
                 post == Elems(SectionsOf(maps'[i], heap', pid)) IN
             \A t \in pre :
                 (\E s \in new : RangesOverlap(s, t))
                     => /\ last'.err # "KeyError"
                        /\ t \in post
                        /\ MapFind(maps[i].section_to_module, pid, t) # {}
                        /\ MapFind(maps'[i].section_to_module, pid, t)
                               = MapFind(maps[i].section_to_module, pid, t)
                        /\ \A s \in new : RangesOverlap(s, t) /\ s # t => s \notin post]_vars

\* C5 witness: an add that returned normally was given a section overlapping
\* a listed section of another module, which get still resolves to that
\* other module.
C5_Witness ==
    /\ last.op = "add" /\ last.err = "ok"
    /\ \E t \in Elems(SectionsOf(maps[1], heap, Mods[last.arg].pid)),
          s \in Elems(Mods[last.arg].sections) :
          /\ t.mod # last.arg
          /\ RangesOverlap(s, t)
          /\ s.size # t.size
          /\ get(maps[1], heap, Mods[last.arg].pid, t.runtime_load_base) = Returned(t.mod)

\* The listed sections a remove of module m takes away: the module's own
\* ones and whatever else left the list.
Removed(m, pre, post) == {t \in pre : t.mod = m \/ t \notin post}

\* C6 as stated: after remove(module) returned, get(pid, pc) raises
\* address-not-mapped for every pc inside a section the call removed.
C6_Original ==
    [][last'.op = "remove" /\ last'.err = "ok"
          => LET i == last'.map
                 m == last'.arg
                 pid == Mods[m].pid
                 pre == Elems(SectionsOf(maps[i], heap, pid))
                 post == Elems(SectionsOf(maps'[i], heap', pid)) IN
             \A t \in Removed(m, pre, post), pc \in Addrs :
                 Inside(t, pc)
                     => get(maps'[i], heap', pid, pc) = Raised("AddressNotMapped")]_vars

\* C6 amended: after remove(module) returned, get(pid, pc) raises
\* address-not-mapped for every pc inside a section the call removed,
\* provided pc is below kernel_start or pid is 0.
C6_Amended ==
    [][last'.op = "remove" /\ last'.err = "ok"
          => LET i == last'.map
                 m == last'.arg
                 pid == Mods[m].pid
                 pre == Elems(SectionsOf(maps[i], heap, pid))
                 post == Elems(SectionsOf(maps'[i], heap', pid)) IN
             \A t \in Removed(m, pre, post), pc \in Addrs :
                 Inside(t, pc) /\ NotRedirected(maps'[i], pid, pc)
                     => get(maps'[i], heap', pid, pc) = Raised("AddressNotMapped")]_vars

\* C6 witness: remove returned, the pid's list is now empty but still
\* recorded, the module's section has no entry left, and get on an address
\* of that section raises address-not-mapped.
C6_Witness ==
    /\ last.op = "remove" /\ last.err = "ok"
    /\ LET pid == Mods[last.arg].pid IN
       /\ Tracked(maps[1], pid)
       /\ SectionsOf(maps[1], heap, pid) = << >>
       /\ \E s \in Elems(Mods[last.arg].sections), pc \in Addrs :
             /\ Inside(s, pc)
             /\ NotRedirected(maps[1], pid, pc)
             /\ MapFind(maps[1].section_to_module, pid, s) = {}
             /\ get(maps[1], heap, pid, pc) = Raised("AddressNotMapped")

\* C7 as stated: after remove_pid(pid) returned, get(pid, pc) raises
\* pid-not-found for every pc.
C7_Original ==
    last.op = "remove_pid" /\ last.err = "ok"
        => \A pc \in Addrs :
              get(maps[last.map], heap, last.arg, pc) = Raised("PidNotFound")

\* C7 amended: after remove_pid(pid), get(pid, pc) raises pid-not-found for
\* every pc below kernel_start, and for every pc when pid is 0.
C7_Amended ==
    last.op = "remove_pid"
        => \A pc \in Addrs :
              NotRedirected(maps[last.map], last.arg, pc)
                  => get(maps[last.map], heap, last.arg, pc) = Raised("PidNotFound")

\* C7 witness: remove_pid(1) returned on a map that still holds pid 0, and
\* get(1, pc) raises pid-not-found for a pc below kernel_start.
C7_Witness ==
    /\ last.op = "remove_pid" /\ last.err = "ok" /\ last.arg = 1
    /\ Tracked(maps[1], 0)
    /\ \E pc \in Addrs :
          /\ pc < maps[1].kernel_start
          /\ get(maps[1], heap, 1, pc) = Raised("PidNotFound")

\* C8 as stated: remove_pid of a pid that is no key of the map, and remove
\* of a module whose pid is no key or none of whose sections is listed,
\* return without an exception and leave the map as it was.
C8_Original ==
    [][LET i == last'.map IN
       \/ /\ last'.op = "remove_pid"
          /\ ~Tracked(maps[i], last'.arg)
       \/ /\ last'.op = "remove"
          /\ \/ ~Tracked(maps[i], Mods[last'.arg].pid)
             \/ Elems(Mods[last'.arg].sections)
                    \cap Elems(SectionsOf(maps[i], heap, Mods[last'.arg].pid)) = {}
       => /\ last'.err = "ok"
          /\ maps'[last'.map] = maps[last'.map]
          /\ heap' = heap]_vars

\* C9 as stated: a section listed under a non-zero pid that lies at or above
\* kernel_start is resolved to its module by get for any pid argument.
C9_Original ==
    \A i \in MapIds, pid \in Pids \ {0} :
        \A t \in Elems(SectionsOf(maps[i], heap, pid)) :
            \A pc \in Addrs, q \in Pids :
                Inside(t, pc) /\ pc >= maps[i].kernel_start
                    => get(maps[i], heap, q, pc) = Returned(t.mod)

\* C9 amended: for pc >= kernel_start and any pid argument, get raises
\* pid-not-found when pid 0 has no section list, returns the module of the
\* section of pid 0 that contains pc when there is one, and raises
\* address-not-mapped otherwise; sections listed under other pids play no
\* part.
C9_Amended ==
    \A i \in MapIds, q \in Pids, pc \in Addrs :
        maps[i].made /\ pc >= maps[i].kernel_start
            => LET r == get(maps[i], heap, q, pc)
                   hits == {t \in Elems(SectionsOf(maps[i], heap, 0)) : Inside(t, pc)} IN
               IF ~Tracked(maps[i], 0) THEN r = Raised("PidNotFound")
               ELSE IF hits = {} THEN r = Raised("AddressNotMapped")
               ELSE \E t \in hits : r = Returned(t.mod)

\* C9 witness: the scenario itself. A module was added under pid 1,
\* kernel_start was then set to the base of its section, pid 0 has no list,
\* and get under another pid for an address of the section raises
\* pid-not-found.
C9_Witness ==
    /\ last.op = "kernel_start"
    /\ ~Tracked(maps[1], 0)
    /\ \E t \in Elems(SectionsOf(maps[1], heap, 1)) :
          /\ maps[1].kernel_start = t.runtime_load_base
          /\ get(maps[1], heap, 2, t.runtime_load_base) = Raised("PidNotFound")
          /\ get(maps[1], heap, 1, t.runtime_load_base) = Raised("PidNotFound")

\* C10: to_native(pc) returns None when no section of the module contains
\* pc, and otherwise pc - runtime_load_base + native_load_base of the first
\* section that contains pc.
C10_ToNative ==
    m_native # << >>
        => LET hits == {k \in 1..Len(m_sections) : Inside(m_sections[k], m_pc)} IN
           IF hits = {} THEN m_native[1] = None
           ELSE \E k \in hits :
                   /\ \A j \in hits : k <= j
                   /\ m_native[1] = m_pc - m_sections[k].runtime_load_base
                                        + m_sections[k].native_load_base

\* C10 witness: the second of two sections (runtime base 1, native base 5)
\* contains pc = 2 and to_native returned 6.
C10_Witness ==
    /\ Len(m_sections) = 2
    /\ ~Inside(m_sections[1], m_pc)
    /\ m_sections[2].runtime_load_base = 1
    /\ m_sections[2].native_load_base = 5
    /\ m_pc = 2
    /\ m_native = << 6 >>

\* The list is sorted by runtime address and its sections do not overlap.
SortedDisjoint(seq) ==
    \A k \in 1..(Len(seq) - 1) :
        seq[k].runtime_load_base + seq[k].size <= seq[k + 1].runtime_load_base

\* (pid, s) is a key of the module mapping, as "(pid, s) in map" decides it.
HasEntry(self, pid, s) == MapHas(self.section_to_module, pid, s)

\* The pid's list holds a section with the runtime base and size of s.
Listed(self, h, pid, s) ==
    \E t \in Elems(SectionsOf(self, h, pid)) : SectionHash(t) = SectionHash(s)

\* C11 as stated: in every reachable state and for every pid, the section
\* list is sorted and pairwise non-overlapping, and a section is in the list
\* if and only if the module mapping has an entry keyed by (pid, section).
C11_Original ==
    \A i \in MapIds, pid \in Pids :
        /\ SortedDisjoint(SectionsOf(maps[i], heap, pid))
        /\ \A s \in Elems(SectionsOf(maps[i], heap, pid)) : HasEntry(maps[i], pid, s)
        /\ \A e \in EntriesOf(maps[i], pid) : Listed(maps[i], heap, pid, e.key)

\* The listed section t is the one add inserted for a section of module m:
\* it belongs to m and has the runtime base and the size of that section.
ExactMatch(t, m) ==
    \E k \in 1..Len(Mods[m].sections) :
        /\ t.mod = m
        /\ t.runtime_load_base = Mods[m].sections[k].runtime_load_base
        /\ t.size = Mods[m].sections[k].size

\* C12 as stated: remove(module) on a pid that has a section list raises no
\* error, and every listed section that is no exact match of a section of
\* module (it only overlaps one, or belongs to another module) stays in the
\* list and keeps its entry of the module mapping.
C12_Original ==
    [][LET i == last'.map
           pid == Mods[last'.arg].pid
       IN  last'.op = "remove" /\ Tracked(maps[i], pid)
           => /\ last'.err = "ok"
              /\ \A t \in Elems(SectionsOf(maps[i], heap, pid)) :
                    ~ExactMatch(t, last'.arg)
                        => /\ t \in Elems(SectionsOf(maps'[i], heap', pid))
                           /\ HasEntry(maps'[i], pid, t)]_vars

\* The sections of the list that contain pc, found by a linear scan.
Hits(seq, pc) == {s \in Elems(seq) : Inside(s, pc)}

\* C13: in every reachable state and for every (pid, pc), with p the
\* kernel-translated pid, get raises pid-not-found iff p has no section
\* list, raises address-not-mapped iff p has a list and no section of it
\* contains pc, and otherwise returns the module that the module mapping
\* records for (p, s), s being a listed section that contains pc.
C13_LinearScan ==
    \A i \in MapIds, pid \in Pids, pc \in Addrs :
        LET self == maps[i]
            p == _translate_pid(self, pid, pc)
            hits == Hits(SectionsOf(self, heap, p), pc)
            g == get(self, heap, pid, pc)
        IN  /\ g.err = "PidNotFound" <=> ~Tracked(self, p)
            /\ g.err = "AddressNotMapped" <=> Tracked(self, p) /\ hits = {}
            /\ g.err = "ok" <=> Tracked(self, p) /\ hits # {}
            /\ g.err = "ok" =>
                  \E s \in hits :
                      /\ HasEntry(self, p, s)
                      /\ g.mod = MapGet(self.section_to_module, p, s)

\* C13 witness: a list of two sections, and a pc inside the second one that
\* get resolves to a module.
C13_Witness ==
    \E pid \in Pids, pc \in Addrs :
        LET p == _translate_pid(maps[1], pid, pc)
            secs == SectionsOf(maps[1], heap, p)
        IN  /\ Len(secs) >= 2
            /\ Inside(secs[2], pc)
            /\ get(maps[1], heap, pid, pc).err = "ok"

\* Section k of module m overlaps a section of the list.
Conflicts(m, k, seq) == \E t \in Elems(seq) : RangesOverlap(Mods[m].sections[k], t)

\* Section j of module m overlaps nothing the call can find in the list:
\* no section of the list before the call, no earlier section of m.
Free(m, j, seq) ==
    /\ ~Conflicts(m, j, seq)
    /\ \A k \in 1..(j - 1) : ~RangesOverlap(Mods[m].sections[j], Mods[m].sections[k])

\* What C14 says of section k of m, conflicting with the list pre of pid:
\* it is not inserted, and every later free section of m is in the list
\* after the call and mapped to m.
SkipAndContinue(m, k, pid, pre, self2, h2) ==
    LET post == SectionsOf(self2, h2, pid) IN
    /\ Mods[m].sections[k] \in Elems(post) => Mods[m].sections[k] \in Elems(pre)
    /\ \A j \in (k + 1)..Len(Mods[m].sections) :
          Free(m, j, pre) /\ Mods[m].sections[j].size > 0
              => /\ Mods[m].sections[j] \in Elems(post)
                 /\ HasEntry(self2, pid, Mods[m].sections[j])
                 /\ MapGet(self2.section_to_module, pid, Mods[m].sections[j]) = m

C15_RemovePid ==
    [][LET i == last'.map
           pid == last'.arg
       IN  last'.op = "remove_pid" /\ Tracked(maps[i], pid)
           => /\ last'.err = "ok"
              /\ ~Tracked(maps'[i], pid)
              /\ EntriesOf(maps'[i], pid) = {}
              /\ \A q \in Pids \ {pid} :
                    /\ Tracked(maps'[i], q) = Tracked(maps[i], q)
                    /\ SectionsOf(maps'[i], heap', q) = SectionsOf(maps[i], heap, q)
                    /\ EntriesOf(maps'[i], q) = EntriesOf(maps[i], q)]_vars

\* C15 witness: remove_pid(1) returned and left pid 1 without a list, while
\* pid 0 still has a non-empty list and its entries.
C15_Witness ==
    /\ last.op = "remove_pid" /\ last.err = "ok" /\ last.arg = 1
    /\ ~Tracked(maps[1], 1)
    /\ Len(SectionsOf(maps[1], heap, 0)) > 0
    /\ EntriesOf(maps[1], 0) # {}

\* C16: the map that clone returns has the kernel_start of its source, and
\* the kernel_start setter on one map changes neither the kernel_start nor
\* the outcome of any get of another map, clone or original.
C16_KernelStartByValue ==
    [][/\ last'.op = "clone"
          => maps'[last'.arg].kernel_start = maps[last'.map].kernel_start
       /\ last'.op = "kernel_start"
          => \A j \in MapIds :
                maps[j].made /\ j # last'.map
                    => /\ maps'[j].kernel_start = maps[j].kernel_start
                       /\ \A pid \in Pids, pc \in Addrs :
                             get(maps'[j], heap', pid, pc)
                                 = get(maps[j], heap, pid, pc)]_vars

\* C16 witness: map 2 is a clone, map 1 has a kernel_start that is not the
\* initial one, the setter was just called on map 2, the two maps now have
\* different kernel_start values and answer some get differently.
C16_Witness ==
    /\ last.op = "kernel_start" /\ last.map = 2
    /\ maps[1].made /\ maps[2].made
    /\ maps[1].kernel_start # KernelStartInit
    /\ maps[2].kernel_start # maps[1].kernel_start
    /\ \E pid \in Pids, pc \in Addrs :
          /\ get(maps[1], heap, pid, pc).err = "ok"
          /\ get(maps[2], heap, pid, pc) # get(maps[1], heap, pid, pc)

\* C17: in every reachable state of every map, calls that ended in an error
\* included, every section of a pid's list has an entry of the module
\* mapping under (pid, section), and get(pid, pc) returns a module or raises
\* pid-not-found or address-not-mapped, never the mapping's lookup error.
C17_NoLookupError ==
    \A i \in MapIds :
        maps[i].made
            => /\ \A pid \in Pids :
                     \A s \in Elems(SectionsOf(maps[i], heap, pid)) :
                         HasEntry(maps[i], pid, s)
               /\ \A pid \in Pids, pc \in Addrs :
                     get(maps[i], heap, pid, pc).err
                         \in {"ok", "PidNotFound", "AddressNotMapped"}

\* C17 witness: a clone exists, the latest call on a map was an add or a
\* remove that ended in an error and left an entry of the module mapping
\* whose section is not listed, and get still returns a module on that map.
C17_Witness ==
    /\ last.op \in {"add", "remove"} /\ last.err # "ok"
    /\ maps[2].made
    /\ \E pid \in Pids :
          /\ \E e \in EntriesOf(maps[last.map], pid) :
                ~Listed(maps[last.map], heap, pid, e.key)
          /\ \E pc \in Addrs : get(maps[last.map], heap, pid, pc).err = "ok"

\* C18: add(module) changes no get that returned a module before the call:
\* for every (pid, pc) where get returned m before add, get returns m after
\* it, whether add returned or raised.
C18_FirstLoadWins ==
    [][last'.op = "add"
          => \A pid \in Pids, pc \in Addrs :
                get(maps[last'.map], heap, pid, pc).err = "ok"
                    => get(maps'[last'.map], heap', pid, pc)
                           = get(maps[last'.map], heap, pid, pc)]_vars

\* C18 witness: add was called with a module one of whose non-empty sections
\* contains a pc that get resolves to another module, the one loaded first.
C18_Witness ==
    /\ last.op = "add"
    /\ \E k \in 1..Len(Mods[last.arg].sections), pc \in Addrs :
          LET g == get(maps[1], heap, Mods[last.arg].pid, pc) IN
          /\ Inside(Mods[last.arg].sections[k], pc)
          /\ g.err = "ok"
          /\ g.mod # last.arg

\* C19 as stated: whenever get(pid, pc) returns a module m through the
\* listed section s that contains pc, m.to_native(pc) is an address and
\* equals pc - s.runtime_load_base + s.native_load_base.
C19_Original ==
    \A i \in MapIds, pid \in Pids, pc \in Addrs :
        LET self == maps[i]
            p == _translate_pid(self, pid, pc)
            g == get(self, heap, pid, pc)
        IN  g.err = "ok"
                => \A s \in Hits(SectionsOf(self, heap, p), pc) :
                      /\ to_native(Mods[g.mod].sections, pc) # None
                      /\ to_native(Mods[g.mod].sections, pc)
                             = pc - s.runtime_load_base + s.native_load_base

====
